---------------------------- MODULE Spec2Model ----------------------------
(***************************************************************************)
(* The streaming transcription pipeline of meet-meAI: the capture callback *)
(* that pushes frames on the frame queue q, the recognition worker         *)
(* process_audio that feeds the recognizer and emits Live / Segment events,*)
(* and the presentation side that applies them.                            *)
(*                                                                         *)
(* The repository holds two variants of the pipeline:                      *)
(*   impl = "tk": src/main_temp.py (two queues ui_updates and              *)
(*                history_updates polled by _drain_ui_updates),            *)
(*   impl = "qt": src/main.py (queued Qt signals textChanged and           *)
(*                finalSegment delivered by the main thread's event loop). *)
(*                                                                         *)
(* Time is counted in hundredths of a second and the clock is read as a    *)
(* time of day: strftime and QTime keep only that part of a reading, and   *)
(* the throttle uses differences of readings, except against the initial   *)
(* last_update_ts = 0.0, which every reading exceeds by more than the      *)
(* minimum interval (StartTime >= PARTIAL_MIN_INTERVAL).  Texts are        *)
(* sequences of characters so that str.strip() and the " ..." suffix are   *)
(* computed.                                                               *)
(* The field src of an event and of a history entry is auxiliary: it is    *)
(* the sequence number of the frame whose outcome produced it.             *)
(***************************************************************************)
EXTENDS Integers, Sequences, FiniteSets, TLC

(* ------------------------------ bounds -------------------------------- *)

\* Number of frames the capture callback delivers in a run.
MaxFrames == 3

\* First clock reading of a run (time of day, hundredths of a second).
StartTime == 196

\* Number of clock advances in a run.
MaxTicks == 1

\* One clock advance, hundredths of a second.
TickStep == 8

\* Frames of a burst: enough for more current-line texts than one run of
\* _drain_ui_updates applies.
BurstFrames == 11

(* --------------------------- program constants ------------------------ *)

\* PARTIAL_MIN_INTERVAL = 0.08 seconds.
PARTIAL_MIN_INTERVAL == 8

\* The cap of one drain cycle on ui_updates (processed >= 10).
DRAIN_CAP == 10

\* queue.Queue() is built with no maxsize: 0 means unbounded.
QMAXSIZE == 0

(* ------------------------------- texts -------------------------------- *)

SP == " "

\* The suffix " ..." appended to a partial text.
ELLIPSIS == <<SP, "...">>

RECURSIVE LStrip(_)
LStrip(s) == IF s # <<>> /\ Head(s) = SP THEN LStrip(Tail(s)) ELSE s

RECURSIVE RStrip(_)
RStrip(s) ==
  IF s # <<>> /\ s[Len(s)] = SP THEN RStrip(SubSeq(s, 1, Len(s) - 1)) ELSE s

\* str.strip()
Strip(s) == RStrip(LStrip(s))

\* time.strftime("%H:%M:%S", time.gmtime(t)) and QTime.toString("HH:mm:ss"),
\* t in hundredths of a second.
FormatHMS(t) ==
  LET s == t \div 100
  IN  <<(s \div 3600) % 24, (s \div 60) % 60, s % 60>>

(* ------------------------- recognizer outcomes ------------------------ *)

\* dict.get(key, default) on a parsed JSON object: has is its set of keys.
Get(obj, key, default) == IF key \in obj.has THEN obj[key] ELSE default

\* One entry of the "result" list of a final result.
Word(st) == [has |-> {"word", "start", "end"}, start |-> st]

\* What rec.Result() / rec.PartialResult() returns, as json.loads sees it:
\*   kind = "garbage": not JSON (json.JSONDecodeError),
\*   kind = "array":   JSON, but not an object,
\*   kind = "object":  a JSON object with the keys in has.
Json(kind, has, text, words) ==
  [kind |-> kind, has |-> has, text |-> text, partial |-> text, result |-> words]

Garbage == Json("garbage", {}, <<>>, <<>>)

WrongShape == Json("array", {}, <<>>, <<>>)

FinalJson ==
  { Garbage, WrongShape,
    Json("object", {"text"}, <<SP>>, <<>>),
    Json("object", {"text"}, <<"a", SP>>, <<>>),
    Json("object", {"text", "result"}, <<"b">>, <<Word(250), Word(280)>>) }

PartialJson ==
  { Garbage, WrongShape,
    Json("object", {}, <<>>, <<>>),
    Json("object", {"partial"}, <<>>, <<>>),
    Json("object", {"partial"}, <<SP, "a">>, <<>>),
    Json("object", {"partial"}, <<"b">>, <<>>) }

\* accepted is the value of rec.AcceptWaveform(data); json is the result read next.
Outcomes ==
  [accepted : {TRUE}, json : FinalJson] \cup [accepted : {FALSE}, json : PartialJson]

NoOutcome == [accepted |-> FALSE, json |-> Json("none", {}, <<>>, <<>>)]

(* ------------------------------- events ------------------------------- *)

NoTs == <<>>

\* No clock reading.
Never == -1

\* An event on its way to the presentation side.
Ev(chan, text, ts, spk) ==
  [chan |-> chan, text |-> text, timestamp |-> ts, speaker |-> spk, src |-> 0]

Tag(e, n) == [e EXCEPT !.src = n]

\* The result of one pass of the worker loop.
Pass(evs, lp, lts, up) == [events |-> evs, last_partial |-> lp, last_update_ts |-> lts, alive |-> up]

(* ------------------- the recognition worker, one pass ------------------ *)

\* Mutant: the test for an empty partial is left out.
PartialDueTk_NoEmptyTest(partial, lp, lts, t) ==
  partial # lp /\ (t - lts) >= PARTIAL_MIN_INTERVAL

\* Mutant: the interval test is strict.
PartialDueTk_Strict(partial, lp, lts, t) ==
  partial # <<>> /\ partial # lp /\ (t - lts) > PARTIAL_MIN_INTERVAL

\* main_temp.py: partial and partial != last_partial and
\*               (now - last_update_ts) >= PARTIAL_MIN_INTERVAL
PartialDueTk(partial, lp, lts, t) ==
  partial # <<>> /\ partial # lp /\ (t - lts) >= PARTIAL_MIN_INTERVAL

\* main_temp.py: the timestamp of a final result (start of the first word,
\* else the clock), as "%H:%M:%S".
UtteranceTimestampTk(json, t) ==
  LET words     == Get(json, "result", <<>>)
      start_sec == IF words # <<>> THEN Get(words[1], "start", 0) ELSE t
  IN  FormatHMS(start_sec)

\* Mutant: the current line of a final result gets the " ..." of a partial.
FinalEventsTk_Ellipsis(json, final_text, t) ==
  << Ev("history_updates", final_text, UtteranceTimestampTk(json, t), "S1"),
     Ev("ui_updates", final_text \o ELLIPSIS, NoTs, "") >>

\* main_temp.py: what a final result with text final_text puts on the queues.
FinalEventsTk(json, final_text, t) ==
  << Ev("history_updates", final_text, UtteranceTimestampTk(json, t), "S1"),
     Ev("ui_updates", final_text, NoTs, "") >>

\* Mutant: a final result clears last_update_ts as well.
AfterFinalTk_ResetBoth(lp, lts) == [last_partial |-> <<>>, last_update_ts |-> 0]

\* main_temp.py: the throttle state after a final result with text.
AfterFinalTk(lp, lts) == [last_partial |-> <<>>, last_update_ts |-> lts]

\* main_temp.py: what a partial result that is due puts on the queues.
PartialEventsTk(partial) == << Ev("ui_updates", partial \o ELLIPSIS, NoTs, "") >>

\* Mutant: last_partial is assigned outside the "if", for every partial.
PartialPassTk_AlwaysRemember(partial, lp, lts, t) ==
  IF PartialDueTk(partial, lp, lts, t)
  THEN Pass(PartialEventsTk(partial), partial, t, TRUE)
  ELSE Pass(<<>>, partial, lts, TRUE)

\* main_temp.py: the "if" on a partial result: put it on the queue and
\* remember it and the clock, or do nothing.
PartialPassTk(partial, lp, lts, t) ==
  IF PartialDueTk(partial, lp, lts, t)
  THEN Pass(PartialEventsTk(partial), partial, t, TRUE)
  ELSE Pass(<<>>, lp, lts, TRUE)

\* main_temp.py: one pass of the loop of process_audio on outcome o, with the
\* throttle state (lp, lts) and the clock reading t.
ProcessAudioTk(o, lp, lts, t) ==
  IF o.accepted
  THEN IF o.json.kind = "garbage" THEN Pass(<<>>, lp, lts, TRUE)        \* continue
       ELSE IF o.json.kind # "object" THEN Pass(<<>>, lp, lts, FALSE)   \* result.get raises
       ELSE
       LET final_text == Strip(Get(o.json, "text", <<>>))
       IN  IF final_text # <<>>
           THEN LET th == AfterFinalTk(lp, lts)
                IN  Pass(FinalEventsTk(o.json, final_text, t),
                         th.last_partial, th.last_update_ts, TRUE)
           ELSE Pass(<<>>, lp, lts, TRUE)
  ELSE IF o.json.kind = "garbage" THEN Pass(<<>>, lp, lts, TRUE)        \* continue
       ELSE IF o.json.kind # "object" THEN Pass(<<>>, lp, lts, FALSE)   \* pres.get raises
       ELSE
       LET partial == Strip(Get(o.json, "partial", <<>>))
       IN  PartialPassTk(partial, lp, lts, t)

\* Mutant: the test against last_partial is left out.
PartialDueQt_NoChangeTest(partial, lp, lts, t) ==
  partial # <<>> /\ (t - lts) >= PARTIAL_MIN_INTERVAL

\* main.py: partial and partial != last_partial and
\*          (now - last_update_ts) >= PARTIAL_MIN_INTERVAL
PartialDueQt(partial, lp, lts, t) ==
  partial # <<>> /\ partial # lp /\ (t - lts) >= PARTIAL_MIN_INTERVAL

\* main.py: the signals a final result with text final_text emits.
FinalEventsQt(final_text) ==
  << Ev("textChanged", final_text, NoTs, ""),
     Ev("finalSegment", final_text, NoTs, "") >>

\* Mutant: a final result leaves last_partial as it is.
AfterFinalQt_KeepPartial(lp, lts) == [last_partial |-> lp, last_update_ts |-> lts]

\* main.py: the throttle state after a final result with text.
AfterFinalQt(lp, lts) == [last_partial |-> <<>>, last_update_ts |-> lts]

\* Mutant: a partial result emits finalSegment as well.
PartialEventsQt_AlsoSegment(partial) ==
  << Ev("textChanged", partial \o ELLIPSIS, NoTs, ""),
     Ev("finalSegment", partial, NoTs, "") >>

\* main.py: the signal a partial result that is due emits.
PartialEventsQt(partial) == << Ev("textChanged", partial \o ELLIPSIS, NoTs, "") >>

\* main.py: the "if" on a partial result: emit it and remember it and the
\* clock, or do nothing.
PartialPassQt(partial, lp, lts, t) ==
  IF PartialDueQt(partial, lp, lts, t)
  THEN Pass(PartialEventsQt(partial), partial, t, TRUE)
  ELSE Pass(<<>>, lp, lts, TRUE)

\* main.py: one pass of the loop of process_audio.
ProcessAudioQt(o, lp, lts, t) ==
  IF o.accepted
  THEN IF o.json.kind = "garbage" THEN Pass(<<>>, lp, lts, TRUE)        \* continue
       ELSE IF o.json.kind # "object" THEN Pass(<<>>, lp, lts, FALSE)   \* result.get raises
       ELSE
       LET final_text == Strip(Get(o.json, "text", <<>>))
       IN  IF final_text # <<>>
           THEN LET th == AfterFinalQt(lp, lts)
                IN  Pass(FinalEventsQt(final_text), th.last_partial, th.last_update_ts, TRUE)
           ELSE Pass(<<>>, lp, lts, TRUE)
  ELSE IF o.json.kind = "garbage" THEN Pass(<<>>, lp, lts, TRUE)        \* continue
       ELSE IF o.json.kind # "object" THEN Pass(<<>>, lp, lts, FALSE)   \* pres.get raises
       ELSE
       LET partial == Strip(Get(o.json, "partial", <<>>))
       IN  PartialPassQt(partial, lp, lts, t)

ProcessAudio(variant, o, lp, lts, t) ==
  IF variant = "tk" THEN ProcessAudioTk(o, lp, lts, t) ELSE ProcessAudioQt(o, lp, lts, t)

(* --------------------------- the frame queue --------------------------- *)

\* Mutant: the queue is built with maxsize 1.
QFull_MaxOne(queue) == Len(queue) >= 1

\* queue.Queue.put blocks while 0 < maxsize <= qsize.
QFull(queue) == QMAXSIZE > 0 /\ Len(queue) >= QMAXSIZE

\* queue.Queue.put: at the tail.
QPut(queue, x) == Append(queue, x)

\* Mutant: a LifoQueue, get takes the newest frame.
QFront_Newest(queue) == queue[Len(queue)]

\* queue.Queue.get: the head.
QFront(queue) == Head(queue)

QRest(queue) == Tail(queue)

\* Mutant: the callback returns after reporting a status.
GoesOnToPut_ReturnOnStatus(status) == ~status

\* audio_callback: "if status: print(status)" has no return; the callback goes
\* on to q.put whatever the status.
GoesOnToPut(status) == TRUE

(* ------------------------- the presentation side ----------------------- *)

\* Mutant: the early return of _append_history is taken.
AppendHistory_Return(h, item) == h

\* Mutant: the text widget is cleared before the line is inserted.
AppendHistory_Overwrite(h, item) ==
  << [timestamp |-> item.timestamp, speaker |-> item.speaker,
      text |-> item.text, src |-> item.src] >>

\* main_temp.py _append_history: one line "[timestamp] speaker: text" at the end.
AppendHistory(h, item) ==
  Append(h, [timestamp |-> item.timestamp, speaker |-> item.speaker,
             text |-> item.text, src |-> item.src])

\* Mutant: the row is inserted at the top of the list.
AddSegment_AtTop(h, e, t) ==
  IF e.text = <<>> THEN h
  ELSE <<[timestamp |-> FormatHMS(t), speaker |-> "S1", text |-> e.text, src |-> e.src]>> \o h

\* main.py SpeakerLog.add_segment: a row stamped with the local time, speaker "S1".
AddSegment(h, e, t) ==
  IF e.text = <<>> THEN h
  ELSE Append(h, [timestamp |-> FormatHMS(t), speaker |-> "S1",
                  text |-> e.text, src |-> e.src])

\* Mutant: the loop over ui_updates has no "break".
CapReached_Never(n) == FALSE

\* main_temp.py: if processed >= 10: break
CapReached(n) == n >= DRAIN_CAP

(* ------------------------------- state --------------------------------- *)

VARIABLES
  impl,            \* which variant runs: "tk" (main_temp.py) or "qt" (main.py)
  phase,           \* the main thread: "running" its event loop, "closing" (the loop
                   \* has returned), "stopped" (the input stream is closed), "exited"
  now,             \* the clock, time.time() / QTime.currentTime()
  captured,        \* number of frames the audio device has delivered
  flagged,         \* auxiliary: the frame delivered last came with a status flag
                   \* (forgotten once the worker has emptied the queue)
  q,               \* the frame queue
  cb,              \* the capture callback: "idle", or "blocked" inside q.put
  fed,             \* auxiliary: the frames given to rec.AcceptWaveform, in order
  finals,          \* auxiliary: the frames whose outcome was a Final with text
  alive,           \* the worker thread has not ended
  pending,         \* events of the current pass the worker has yet to emit
  outcome,         \* the recognizer outcome of the worker's latest pass
  out,             \* auxiliary: the events emitted so far for that outcome
  last_partial,    \* process_audio's local last_partial
  last_update_ts,  \* process_audio's local last_update_ts
  live_at,         \* auxiliary: clock reading of the latest emission for a partial, or Never
  prev_live,       \* auxiliary: text of the latest Live emitted for a partial since
                   \* the last emitted Final, <<>> if there is none
  ui_updates,      \* main_temp.py: queue of texts for the current line
  history_updates, \* main_temp.py: queue of finished segments
  posted,          \* main.py: queued signal deliveries of the main thread
  last_live,       \* auxiliary: text and frame of the latest current-line event emitted
  dpc,             \* main_temp.py: where _drain_ui_updates is
  processed,       \* main_temp.py: _drain_ui_updates' local counter
  appended,        \* auxiliary: the history items this run of _drain_ui_updates applied
  realtime,        \* the current line (realtime_var / MainWindow.label)
  shown,           \* auxiliary: the frame whose event set the current line, 0 at start
  history          \* the transcript history (history_text / SpeakerLog rows)

vars == << impl, phase, now, captured, flagged, q, cb, fed, finals, alive, pending, outcome, out,
           last_partial, last_update_ts, live_at, prev_live, ui_updates,
           history_updates, posted, last_live, dpc, processed, appended, realtime,
           shown, history >>

captureVars == << captured, flagged, q, cb >>
workerVars  == << fed, finals, alive, pending, outcome, out, last_partial, last_update_ts,
                  live_at, prev_live >>
channelVars == << ui_updates, history_updates, posted, last_live >>
viewVars    == << dpc, processed, appended, realtime, shown, history >>

Variants == {"tk", "qt"}

\* The text the current line shows at start ("Pronto..." / "Ready...").
InitialLine(variant) == IF variant = "tk" THEN <<"Pronto...">> ELSE <<"Ready...">>

Init ==
  /\ impl \in Variants
  /\ phase = "running"
  /\ now = StartTime
  /\ captured = 0
  /\ flagged = FALSE
  /\ q = <<>>
  /\ cb = "idle"
  /\ fed = <<>>
  /\ finals = {}
  /\ alive = TRUE
  /\ pending = <<>>
  /\ outcome = NoOutcome
  /\ out = <<>>
  /\ last_partial = <<>>
  /\ last_update_ts = 0
  /\ live_at = Never
  /\ prev_live = <<>>
  /\ ui_updates = <<>>
  /\ history_updates = <<>>
  /\ posted = <<>>
  /\ last_live = [text |-> InitialLine(impl), src |-> 0]
  /\ dpc = "idle"
  /\ processed = 0
  /\ appended = 0
  /\ realtime = InitialLine(impl)
  /\ shown = 0
  /\ history = <<>>

(* ------------------------------ actions -------------------------------- *)

\* The clock advances.
Tick ==
  /\ now + TickStep <= StartTime + MaxTicks * TickStep
  /\ now' = now + TickStep
  /\ UNCHANGED << impl, phase, captureVars, workerVars, channelVars, viewVars >>

\* audio_callback(indata, frames, time, status): print the status if any, then
\* q.put(bytes(indata)).  Frame number captured + 1 is delivered.
AudioCallback(status) ==
  /\ cb = "idle"
  /\ captured < MaxFrames
  /\ captured' = captured + 1
  /\ flagged' = status
  /\ IF ~GoesOnToPut(status)
     THEN cb' = "idle" /\ q' = q
     ELSE IF QFull(q)
          THEN cb' = "blocked" /\ q' = q
          ELSE cb' = "idle" /\ q' = QPut(q, captured + 1)
  /\ UNCHANGED << impl, phase, now, workerVars, channelVars, viewVars >>

\* Mutant: the signals are connected with Qt.DirectConnection.
ConnectionQueued_Direct == FALSE

\* main.py: connect() with the default connection type, the signals emitted
\* from the worker thread and the receivers living in the main thread: the
\* slot call is queued for the main thread's event loop.
ConnectionQueued == TRUE

\* Mutant: ui_updates is a last-in first-out queue.
Emit_Lifo(e) ==
  /\ ui_updates' = IF e.chan = "ui_updates" THEN <<e>> \o ui_updates ELSE ui_updates
  /\ history_updates' =
       IF e.chan = "history_updates" THEN Append(history_updates, e) ELSE history_updates
  /\ posted' = IF e.chan \in {"textChanged", "finalSegment"} THEN <<e>> \o posted ELSE posted
  /\ realtime' = realtime
  /\ shown' = shown
  /\ history' = history
  /\ last_live' = IF e.chan \in {"ui_updates", "textChanged"}
                  THEN [text |-> e.text, src |-> e.src] ELSE last_live

\* The worker hands event e over: ui_updates.put / history_updates.put in
\* main_temp.py, bus.textChanged.emit / bus.finalSegment.emit in main.py (a
\* signal that is not queued runs its slot at once, in the worker thread).
Emit(e) ==
  /\ ui_updates' = IF e.chan = "ui_updates" THEN Append(ui_updates, e) ELSE ui_updates
  /\ history_updates' =
       IF e.chan = "history_updates" THEN Append(history_updates, e) ELSE history_updates
  /\ posted' = IF e.chan \in {"textChanged", "finalSegment"} /\ ConnectionQueued
               THEN Append(posted, e) ELSE posted
  /\ realtime' = IF e.chan = "textChanged" /\ ~ConnectionQueued THEN e.text ELSE realtime
  /\ shown' = IF e.chan = "textChanged" /\ ~ConnectionQueued THEN e.src ELSE shown
  /\ history' = IF e.chan = "finalSegment" /\ ~ConnectionQueued
                THEN AddSegment(history, e, now) ELSE history
  /\ last_live' = IF e.chan \in {"ui_updates", "textChanged"}
                  THEN [text |-> e.text, src |-> e.src] ELSE last_live

\* One pass of the loop of process_audio: data = q.get(), the recognizer is fed,
\* its outcome o is read and handled up to the first event it emits.
WorkerPass(o) ==
  /\ alive
  /\ pending = <<>>
  /\ q # <<>>
  /\ LET data == QFront(q)
         r    == ProcessAudio(impl, o, last_partial, last_update_ts, now)
         evs  == [i \in 1..Len(r.events) |-> Tag(r.events[i], data)]
     IN  /\ fed' = Append(fed, data)
         /\ finals' = IF o.accepted /\ o.json.kind = "object"
                         /\ Strip(Get(o.json, "text", <<>>)) # <<>>
                      THEN finals \cup {data} ELSE finals
         /\ IF cb = "blocked"
            THEN q' = QPut(QRest(q), captured) /\ cb' = "idle"
            ELSE q' = QRest(q) /\ cb' = cb
         /\ flagged' = (flagged /\ Len(q) > 1)
         /\ outcome' = o
         /\ alive' = r.alive
         /\ last_partial' = r.last_partial
         /\ last_update_ts' = r.last_update_ts
         /\ live_at' = IF ~o.accepted /\ evs # <<>> THEN now ELSE live_at
         /\ prev_live' = IF evs = <<>> THEN prev_live
                         ELSE IF o.accepted THEN <<>> ELSE evs[1].text
         /\ IF evs = <<>>
            THEN /\ out' = <<>>
                 /\ pending' = <<>>
                 /\ UNCHANGED << channelVars, realtime, shown, history >>
            ELSE /\ out' = <<evs[1]>>
                 /\ pending' = Tail(evs)
                 /\ Emit(evs[1])
  /\ UNCHANGED << impl, phase, now, captured, dpc, processed, appended >>

\* The worker emits the next event of the current pass.
WorkerEmit ==
  /\ pending # <<>>
  /\ Emit(Head(pending))
  /\ out' = Append(out, Head(pending))
  /\ pending' = Tail(pending)
  /\ UNCHANGED << impl, phase, now, captureVars, fed, finals, alive, outcome, last_partial,
                  last_update_ts, live_at, prev_live, dpc, processed, appended >>

\* main_temp.py: one turn of the first loop of _drain_ui_updates; from "idle"
\* the timer (root.after) has started the function and this is its first turn.
DrainUi ==
  /\ impl = "tk"
  /\ dpc \in {"idle", "ui"}
  /\ IF ui_updates = <<>>
     THEN /\ dpc' = "hist"                                   \* queue.Empty
          /\ UNCHANGED << ui_updates, processed, realtime, shown >>
     ELSE /\ realtime' = Head(ui_updates).text
          /\ shown' = Head(ui_updates).src
          /\ ui_updates' = Tail(ui_updates)
          /\ processed' = processed + 1
          /\ dpc' = IF CapReached(processed + 1) THEN "hist" ELSE "ui"   \* break
  /\ UNCHANGED << impl, phase, now, captureVars, workerVars, history_updates, posted,
                  last_live, appended, history >>

\* main_temp.py: one turn of the second loop of _drain_ui_updates.
DrainHistory ==
  /\ dpc = "hist"
  /\ IF history_updates = <<>>
     THEN /\ dpc' = "idle"                                   \* queue.Empty, root.after
          /\ processed' = 0                                  \* the function returns
          /\ appended' = 0
          /\ UNCHANGED << history_updates, history >>
     ELSE /\ history' = AppendHistory(history, Head(history_updates))
          /\ history_updates' = Tail(history_updates)
          /\ appended' = appended + 1
          /\ dpc' = "hist"
          /\ UNCHANGED processed
  /\ UNCHANGED << impl, phase, now, captureVars, workerVars, ui_updates, posted, last_live,
                  realtime, shown >>

\* main.py: the event loop delivers the oldest queued signal to its slot:
\* textChanged to label.setText, finalSegment to speakerLog.add_segment.
QtDispatch ==
  /\ impl = "qt"
  /\ posted # <<>>
  /\ LET e == Head(posted)
     IN  IF e.chan = "textChanged"
         THEN realtime' = e.text /\ shown' = e.src /\ history' = history
         ELSE realtime' = realtime /\ shown' = shown /\ history' = AddSegment(history, e, now)
  /\ posted' = Tail(posted)
  /\ UNCHANGED << impl, phase, now, captureVars, workerVars, ui_updates, history_updates,
                  last_live, dpc, processed, appended >>

Next ==
  \/ Tick
  \/ \E status \in BOOLEAN : AudioCallback(status)
  \/ \E o \in Outcomes : WorkerPass(o)
  \/ WorkerEmit
  \/ DrainUi
  \/ DrainHistory
  \/ QtDispatch

Spec == Init /\ [][Next]_vars

\* The presentation side and the worker's emission are scheduled again and
\* again: the Tk timer re-arms itself (root.after), the Qt event loop delivers
\* every queued signal, and the worker thread is not starved.
FairSpec ==
  /\ Spec
  /\ WF_vars(WorkerEmit)
  /\ WF_vars(DrainUi)
  /\ WF_vars(DrainHistory)
  /\ WF_vars(QtDispatch)

(* ------------------------------ shutdown ------------------------------- *)

\* The window is closed: app.exec() / root.mainloop() returns, and with it the
\* event loop that runs the slots and the timer of the presentation side.
CloseWindow ==
  /\ phase = "running"
  /\ phase' = "closing"
  /\ UNCHANGED << impl, now, captureVars, workerVars, channelVars, viewVars >>

\* The "with sounddevice.RawInputStream(...)" block is left: the stream is
\* closed and audio_callback is called no more.
StopCapture ==
  /\ phase = "closing"
  /\ phase' = "stopped"
  /\ UNCHANGED << impl, now, captureVars, workerVars, channelVars, viewVars >>

\* sys.exit(ret) / the end of the script: the interpreter exits and the
\* daemon thread of process_audio ends with it, wherever it is.
ProcessExit ==
  /\ phase = "stopped"
  /\ phase' = "exited"
  /\ alive' = FALSE
  /\ UNCHANGED << impl, now, captureVars, fed, finals, pending, outcome, out, last_partial,
                  last_update_ts, live_at, prev_live, channelVars, viewVars >>

\* While the event loop runs, every thread takes its steps.
RunningStep == phase = "running" /\ Next

\* The event loop has returned: the capture callback and the worker go on.
ClosingStep ==
  /\ phase = "closing"
  /\ \/ Tick
     \/ \E status \in BOOLEAN : AudioCallback(status)
     \/ \E o \in Outcomes : WorkerPass(o)
     \/ WorkerEmit

\* The stream is closed: only the worker goes on.
StoppedStep ==
  /\ phase = "stopped"
  /\ \/ Tick
     \/ \E o \in Outcomes : WorkerPass(o)
     \/ WorkerEmit

NextShutdown ==
  \/ RunningStep
  \/ CloseWindow
  \/ ClosingStep
  \/ StopCapture
  \/ StoppedStep
  \/ ProcessExit

SpecShutdown == Init /\ [][NextShutdown]_vars

(* ----------------------- a burst of final results --------------------- *)

\* The recognizer's outcome on every frame of the burst: a final result with
\* text and word timings.
BurstOutcome ==
  [accepted |-> TRUE,
   json |-> Json("object", {"text", "result"}, <<"b">>, <<Word(250), Word(280)>>)]

\* main_temp.py with BurstFrames frames already captured and queued when the
\* worker takes its first one.
InitBurst ==
  /\ impl = "tk"
  /\ phase = "running"
  /\ now = StartTime
  /\ captured = BurstFrames
  /\ flagged = FALSE
  /\ q = [i \in 1..BurstFrames |-> i]
  /\ cb = "idle"
  /\ fed = <<>>
  /\ finals = {}
  /\ alive = TRUE
  /\ pending = <<>>
  /\ outcome = NoOutcome
  /\ out = <<>>
  /\ last_partial = <<>>
  /\ last_update_ts = 0
  /\ live_at = Never
  /\ prev_live = <<>>
  /\ ui_updates = <<>>
  /\ history_updates = <<>>
  /\ posted = <<>>
  /\ last_live = [text |-> InitialLine(impl), src |-> 0]
  /\ dpc = "idle"
  /\ processed = 0
  /\ appended = 0
  /\ realtime = InitialLine(impl)
  /\ shown = 0
  /\ history = <<>>

NextBurst ==
  \/ WorkerPass(BurstOutcome)
  \/ WorkerEmit
  \/ DrainUi
  \/ DrainHistory

SpecBurst == InitBurst /\ [][NextBurst]_vars

(* ------------------------ vocabulary of the claims --------------------- *)

\* The worker has made at least one pass, and outcome is what it read.
Passed == Len(fed) >= 1

IsObject(o) == o.json.kind = "object"

\* The trimmed text of a well-formed outcome.
TrimmedText(o) ==
  IF o.accepted THEN Strip(Get(o.json, "text", <<>>)) ELSE Strip(Get(o.json, "partial", <<>>))

FinalWithText(o) == o.accepted /\ IsObject(o) /\ TrimmedText(o) # <<>>

PartialWithText(o) == ~o.accepted /\ IsObject(o) /\ TrimmedText(o) # <<>>

EmptyText(o) == IsObject(o) /\ TrimmedText(o) = <<>>

IsSegment(e) == e.chan \in {"history_updates", "finalSegment"}

IsLive(e) == e.chan \in {"ui_updates", "textChanged"}

\* Number of entries of sequence s that stem from frame f.
Count(s, f) == Cardinality({i \in 1..Len(s) : s[i].src = f})

\* The latest pass is over: every event of it has been emitted.
PassDone == Passed /\ pending = <<>>

\* The events not yet applied by the presentation side, oldest first per channel.
InFlight == ui_updates \o history_updates \o posted \o pending

\* The position of frame f in the recognizer's input, 0 if it was not fed.
FedPos(f) ==
  IF \E i \in 1..Len(fed) : fed[i] = f
  THEN CHOOSE i \in 1..Len(fed) : fed[i] = f
  ELSE 0

(* -------------------------------- C1 ----------------------------------- *)

\* C1: every Final outcome with non-empty trimmed text gets exactly one
\* Segment in the history: no frame ever has two entries, only frames with
\* such an outcome have one, and again and again the history holds one entry
\* for every such outcome read so far (finals and the history only grow),
\* whatever partial traffic and drain interleaving surround it.
C1_ExactlyOneSegment ==
  /\ [](\A f \in 1..MaxFrames :
          Count(history, f) <= (IF f \in finals THEN 1 ELSE 0))
  /\ []<>(\A f \in finals : Count(history, f) = 1)

\* Two finals around a partial whose Live event is still pending: both
\* segments are in the history.
C1_Witness ==
  /\ Len(history) = 2
  /\ history[1].src = 1
  /\ history[2].src = 3
  /\ \E i \in 1..Len(InFlight) : InFlight[i].src = 2 /\ IsLive(InFlight[i])

(* -------------------------------- C2 ----------------------------------- *)

\* C2: the history lists the segments in the order in which the recognizer
\* finalized them: an earlier entry stems from a frame fed earlier.
C2_HistoryInFeedOrder ==
  \A i, j \in 1..Len(history) :
    i < j => /\ FedPos(history[i].src) > 0
             /\ FedPos(history[i].src) < FedPos(history[j].src)

\* Two segments with different texts are in the history.
C2_Witness ==
  /\ Len(history) >= 2
  /\ history[1].text = <<"b">>
  /\ history[2].text = <<"a">>

(* -------------------------------- C3 ----------------------------------- *)

\* C3: a Live event for a Partial outcome is emitted at least
\* PARTIAL_MIN_INTERVAL after the previous Live event for a Partial outcome.
C3_PartialLivesApart ==
  [][ (fed' # fed /\ ~outcome'.accepted /\ out' # <<>>)
        => (live_at = Never \/ now - live_at >= PARTIAL_MIN_INTERVAL) ]_vars

\* A partial with a new text arrived inside the window of the previous
\* emission and was suppressed.
C3_Witness ==
  /\ PassDone
  /\ PartialWithText(outcome)
  /\ TrimmedText(outcome) # last_partial
  /\ out = <<>>
  /\ live_at # Never
  /\ now - live_at < PARTIAL_MIN_INTERVAL

(* -------------------------------- C4 ----------------------------------- *)

\* C4: a pass over a Final or Partial outcome whose trimmed text is empty
\* puts nothing on any channel.
C4_EmptyTextEmitsNothing ==
  [][ (fed' # fed /\ EmptyText(outcome'))
        => (UNCHANGED channelVars /\ pending' = <<>> /\ out' = <<>>) ]_vars

\* An empty partial was read after a partial with text had been emitted, the
\* minimum interval later.
C4_Witness ==
  /\ PassDone
  /\ EmptyText(outcome)
  /\ ~outcome.accepted
  /\ last_partial # <<>>
  /\ now - last_update_ts >= PARTIAL_MIN_INTERVAL

(* -------------------------------- C5 ----------------------------------- *)

\* C5: an outcome that is not a well-formed object (unparseable, or parsed
\* but of the wrong shape) emits nothing and leaves the worker running.
C5_MalformedContained ==
  (Passed /\ ~IsObject(outcome)) => (alive /\ out = <<>> /\ pending = <<>>)

(* -------------------------------- C6 ----------------------------------- *)

\* The speaker of the Segment an event yields: the queue item names it in
\* main_temp.py, SpeakerLog.add_segment attaches it in main.py.
SegmentSpeaker(e) ==
  IF e.chan = "history_updates" THEN e.speaker ELSE AddSegment(<<>>, e, now)[1].speaker

\* C6: a pass over a Final outcome with non-empty trimmed text emits exactly
\* one Segment, of speaker "S1" and the trimmed text, and one Live event whose
\* text is exactly the trimmed text, whatever the throttle state and the clock.
C6_FinalEmitsSegmentAndLive ==
  (PassDone /\ FinalWithText(outcome)) =>
    /\ Len(out) = 2
    /\ \E i, j \in 1..2 :
         /\ IsSegment(out[i]) /\ out[i].text = TrimmedText(outcome)
         /\ SegmentSpeaker(out[i]) = "S1"
         /\ IsLive(out[j]) /\ out[j].text = TrimmedText(outcome)

\* A final was handled inside the window of a partial just emitted.
C6_Witness ==
  /\ PassDone
  /\ FinalWithText(outcome)
  /\ live_at = now
  /\ now - last_update_ts < PARTIAL_MIN_INTERVAL

(* -------------------------------- C7 ----------------------------------- *)

\* C7: the timestamp of a Segment is the start time of the first recognized
\* word when the Final outcome has word timings, and a clock reading taken
\* no later than now when it has none.  Stated of the history entry of the
\* latest outcome.
C7_TimestampIsUtteranceStart ==
  \A i \in 1..Len(history) :
    (history[i].src = Len(fed) /\ FinalWithText(outcome)) =>
      LET words == Get(outcome.json, "result", <<>>)
      IN  IF words # <<>>
          THEN history[i].timestamp = FormatHMS(words[1].start)
          ELSE \E t \in StartTime..now : history[i].timestamp = FormatHMS(t)

(* -------------------------------- C8 ----------------------------------- *)

\* C8 as claimed: after a Segment is emitted both last_partial and
\* last_update_ts are cleared.
C8_ThrottleFullyReset ==
  (PassDone /\ FinalWithText(outcome)) => (last_partial = <<>> /\ last_update_ts = 0)

\* C8 as amended: a pass that emits a Segment clears last_partial and keeps
\* last_update_ts; the first Partial with text of the next utterance is
\* emitted exactly when the minimum interval has passed since last_update_ts,
\* whatever its text.
C8_OnlyLastPartialCleared ==
  [][ /\ (fed' # fed /\ FinalWithText(outcome'))
          => (last_partial' = <<>> /\ last_update_ts' = last_update_ts)
      /\ (fed' # fed /\ Passed /\ FinalWithText(outcome) /\ PartialWithText(outcome'))
          => (out' # <<>> <=> now - last_update_ts >= PARTIAL_MIN_INTERVAL) ]_vars

\* The partial after a final repeats the text emitted before the final, and
\* is emitted.
C8_Witness ==
  /\ Len(fed) = 3
  /\ PartialWithText(outcome)
  /\ out # <<>>
  /\ \E i \in 1..Len(InFlight) :
       /\ InFlight[i].src = 1 /\ IsLive(InFlight[i])
       /\ InFlight[i].text = out[1].text
  /\ \E i \in 1..Len(InFlight) : InFlight[i].src = 2 /\ IsSegment(InFlight[i])

(* -------------------------------- C9 ----------------------------------- *)

\* C9: the capture callback is never blocked inside q.put.
C9_PushNeverBlocks == cb # "blocked"

\* The worker has ended, frames keep being queued behind it.
C9_Witness == ~alive /\ Len(q) >= 2 /\ cb = "idle"

(* -------------------------------- C10 ---------------------------------- *)

\* C10: the frames fed to the recognizer are the first Len(fed) frames the
\* callback delivered, in delivery order (frame i is the i-th delivered).
C10_FedIsPrefixOfDelivered ==
  /\ Len(fed) <= captured
  /\ \A i \in 1..Len(fed) : fed[i] = i

\* Two frames fed, a third delivered and waiting.
C10_Witness == Len(fed) = 2 /\ captured = 3 /\ Len(q) = 1

(* -------------------------------- C11 ---------------------------------- *)

\* C11: the frame queue has a fixed capacity that capture cannot exceed
\* however far it runs ahead of the worker.  A capacity that does not grow
\* with the run is below the number of frames of a long enough run: stated
\* here for a run of MaxFrames frames, the queue never holds them all.
C11_QueueBounded == Len(q) < MaxFrames

(* -------------------------------- C13 ---------------------------------- *)

\* C13: a pass on a Partial outcome emits a Live event only if the trimmed
\* text differs from last_partial, and the Live it emits differs from the
\* previous Live emitted for a partial since the last emitted Final.
C13_PartialLiveDiffers ==
  [][ (fed' # fed /\ ~outcome'.accepted /\ out' # <<>>)
        => /\ TrimmedText(outcome') # last_partial
           /\ out'[1].text # prev_live ]_vars

\* A partial whose interval has elapsed is suppressed only because its text
\* is the one already shown.
C13_Witness ==
  /\ PassDone /\ PartialWithText(outcome) /\ out = <<>>
  /\ TrimmedText(outcome) = last_partial
  /\ now - last_update_ts >= PARTIAL_MIN_INTERVAL
  /\ prev_live = last_partial \o ELLIPSIS

(* -------------------------------- C14 ---------------------------------- *)

\* The Segment events emitted so far: those waiting on a channel and those
\* already applied, each of which is one history entry.
SegmentsEmitted == Len(SelectSeq(history_updates \o posted, IsSegment)) + Len(history)

\* C14: a Segment event is emitted only by a worker step on a Final outcome,
\* so no run of Partial outcomes emits one, and the Segments emitted never
\* outnumber the Final outcomes (with text) received.
C14_SegmentOnlyFromFinal ==
  /\ [][ SegmentsEmitted' # SegmentsEmitted
           => /\ fed' # fed \/ pending' # pending
              /\ outcome'.accepted
              /\ SegmentsEmitted' = SegmentsEmitted + 1 ]_vars
  /\ [](SegmentsEmitted <= Cardinality(finals))

\* One Final has emitted its Segment, and a later Partial emitted a Live only.
C14_Witness ==
  /\ PassDone /\ Len(fed) = 3
  /\ PartialWithText(outcome) /\ out # <<>>
  /\ SegmentsEmitted = 1
  /\ Cardinality(finals) = 1

(* -------------------------------- C15 ---------------------------------- *)

\* C15: one run of _drain_ui_updates applies at most DRAIN_CAP events,
\* current-line texts and history items together.
C15_CycleCapped == processed + appended <= DRAIN_CAP

\* C15, as the code has it: one run of _drain_ui_updates applies at most
\* DRAIN_CAP current-line texts, and it ends only when no history item is
\* left, however many it has applied.
C15_OnlyLiveCapped ==
  /\ [](processed <= DRAIN_CAP /\ (dpc = "ui" => processed < DRAIN_CAP))
  /\ [][ (dpc = "hist" /\ dpc' = "idle") => history_updates = <<>> ]_vars

\* The cap has ended the first loop with a text still queued, and the second
\* loop goes on applying history items.
C15_Witness ==
  /\ dpc = "hist"
  /\ processed = DRAIN_CAP
  /\ ui_updates # <<>>
  /\ appended >= 1

(* -------------------------------- C16 ---------------------------------- *)

\* No emitted current-line event waits to be applied.
NoLivePending == SelectSeq(ui_updates \o posted, IsLive) = <<>>

\* C16: when every Live event emitted so far has been applied (in particular
\* when no event at all is pending), the current line is the text of the Live
\* event emitted last; and the current line never goes back to an earlier
\* Live event once a later one was shown.
C16_LatestLiveShown ==
  /\ [](NoLivePending => (realtime = last_live.text /\ shown = last_live.src))
  /\ [][shown' >= shown]_vars

\* Frame 1 was a Final with text, frame 2 emitted a later Live; everything is
\* applied and the line shows the text of frame 2.
C16_Witness ==
  /\ 1 \in finals
  /\ shown = 2
  /\ ui_updates = <<>> /\ history_updates = <<>> /\ posted = <<>> /\ pending = <<>>
  /\ realtime = last_live.text

(* -------------------------------- C17 ---------------------------------- *)

\* Sequence t is s with zero or more entries added at the end.
Extends(s, t) == Len(s) <= Len(t) /\ SubSeq(t, 1, Len(s)) = s

\* C17: a step of the worker (a pass of its loop, or the emission of an event)
\* leaves the current line and the history as they are and only adds events
\* to the channels; the current line and the history change only in a step
\* of the presentation side, which takes an event off a channel.
C17_WorkerLeavesViewAlone ==
  [][ /\ (fed' # fed \/ pending' # pending)
         => /\ realtime' = realtime /\ history' = history
            /\ Extends(ui_updates, ui_updates')
            /\ Extends(history_updates, history_updates')
            /\ Extends(posted, posted')
      /\ (realtime' # realtime \/ history' # history)
         => /\ fed' = fed /\ pending' = pending
            /\ \/ ui_updates # <<>> /\ ui_updates' = Tail(ui_updates)
               \/ history_updates # <<>> /\ history_updates' = Tail(history_updates)
               \/ posted # <<>> /\ posted' = Tail(posted) ]_vars

\* main.py: the worker has emitted both signals of a Final; the current line
\* and the history are still what they were.
C17_Witness ==
  /\ impl = "qt"
  /\ PassDone /\ FinalWithText(outcome) /\ Len(out) = 2
  /\ Len(posted) = 2
  /\ realtime = InitialLine(impl)
  /\ history = <<>>

(* -------------------------------- C18 ---------------------------------- *)

\* C18: every step leaves the history as it is or adds entries at its end;
\* no entry already there is changed, removed or moved.
C18_HistoryAppendOnly == [][Extends(history, history')]_vars

\* main_temp.py: three entries were appended one after the other.
C18_Witness ==
  /\ impl = "tk"
  /\ Len(history) = 3
  /\ history[1].src = 1 /\ history[2].src = 2 /\ history[3].src = 3

(* -------------------------------- C19 ---------------------------------- *)

\* C19: a frame delivered with a status flag is put on the frame queue like
\* any other, and the callback stays ready: the frames delivered after it are
\* put on the queue as well.
C19_StatusFrameEnqueued ==
  [][ /\ (captured' # captured /\ flagged')        \* the flagged frame
         => (q' = Append(q, captured') /\ cb' = "idle")
      /\ (captured' # captured /\ flagged)         \* the frame after it
         => (q' = Append(q, captured') /\ cb' = "idle") ]_vars

\* Frame 2 came with a status flag after frame 1; both are on the queue and
\* the callback is ready for the next frame.
C19_Witness ==
  /\ flagged
  /\ captured = 2
  /\ q = <<1, 2>>
  /\ cb = "idle"

(* -------------------------------- C20 ---------------------------------- *)

\* C20: a pass that emits nothing (a Partial that is suppressed, a Final whose
\* trimmed text is empty, an outcome that cannot be parsed) leaves
\* last_partial and last_update_ts as they were.
C20_SilentPassKeepsThrottle ==
  [][ (fed' # fed /\ out' = <<>> /\ pending' = <<>>)
        => /\ last_partial' = last_partial
           /\ last_update_ts' = last_update_ts ]_vars

\* After a Partial was shown, a Partial with another text came too early and
\* was suppressed: the throttle still holds the text and time of the first.
C20_Witness ==
  /\ PassDone /\ PartialWithText(outcome) /\ out = <<>>
  /\ last_partial # <<>>
  /\ TrimmedText(outcome) # last_partial
  /\ last_update_ts = now

(* -------------------------------- C12 ---------------------------------- *)

\* C12: after capture has stopped the worker takes every frame still on the
\* queue and emits every event before the program lets go of the worker and
\* the channels: at exit no frame is left on the queue, no event unemitted.
C12_QueueDrainedAtExit ==
  phase = "exited" => (q = <<>> /\ pending = <<>>)

(* -------------------------------- C21 ---------------------------------- *)

\* The current-line events emitted and not yet applied, oldest first.
LivePending == SelectSeq(ui_updates \o posted, IsLive)

\* The current line shows the text of a partial result.
ShowsPartial ==
  /\ Len(realtime) > Len(ELLIPSIS)
  /\ SubSeq(realtime, Len(realtime) - Len(ELLIPSIS) + 1, Len(realtime)) = ELLIPSIS

\* C21: the presentation side sees current-line events and segments in the
\* order of their emission.  When the segment of frame f is in the history,
\* no current-line event of an earlier frame is still waiting, and the
\* current line does not show a partial text of the utterance that f ended
\* (a partial of a frame before f with no Final with text in between).
C21_ObservedInEmissionOrder ==
  \A i \in 1..Len(history) :
    LET f == history[i].src
    IN  /\ \A k \in 1..Len(LivePending) : LivePending[k].src >= f
        /\ ~ ( /\ ShowsPartial
               /\ shown < f
               /\ \A g \in finals : ~(shown < g /\ g < f) )

(* -------------------------------- C22 ---------------------------------- *)

\* The texts of the events of evs that satisfy Test, in order.
TextsOf(evs, Test(_)) ==
  LET sel == SelectSeq(evs, Test) IN [i \in 1..Len(sel) |-> sel[i].text]

\* Passes a and b emit the same current-line texts and the same segment texts
\* and end in the same throttle state (and both go on, or both end).
SameOutput(a, b) ==
  /\ TextsOf(a.events, IsLive) = TextsOf(b.events, IsLive)
  /\ TextsOf(a.events, IsSegment) = TextsOf(b.events, IsSegment)
  /\ a.last_partial = b.last_partial
  /\ a.last_update_ts = b.last_update_ts
  /\ a.alive = b.alive

\* C22: on the same outcome and the same clock reading, from the same
\* throttle state, process_audio of main.py and process_audio of main_temp.py
\* emit the same current-line texts and the same segment texts and end in the
\* same throttle state, which is the one the pass taken ends in.  Both start
\* from the same throttle state, so step by step they emit the same sequences.
C22_WorkersEquivalent ==
  [][ fed' # fed
        => LET tk == ProcessAudioTk(outcome', last_partial, last_update_ts, now)
               qt == ProcessAudioQt(outcome', last_partial, last_update_ts, now)
           IN  /\ SameOutput(tk, qt)
               /\ last_partial' = qt.last_partial
               /\ last_update_ts' = qt.last_update_ts
               /\ TextsOf(out' \o pending', IsLive) = TextsOf(tk.events, IsLive)
               /\ TextsOf(out' \o pending', IsSegment) = TextsOf(qt.events, IsSegment) ]_vars

\* After a partial was shown, a Final with text was handled: the two
\* implementations emit different events for it (other channels, another
\* order, a timestamp or none) with the same texts.
C22_Witness ==
  /\ PassDone /\ FinalWithText(outcome)
  /\ live_at # Never
  /\ LET tk == ProcessAudioTk(outcome, last_partial, last_update_ts, now)
         qt == ProcessAudioQt(outcome, last_partial, last_update_ts, now)
     IN  /\ tk.events # qt.events
         /\ TextsOf(tk.events, IsLive) = <<TrimmedText(outcome)>>
         /\ TextsOf(qt.events, IsSegment) = <<TrimmedText(outcome)>>

=============================================================================
